---- MODULE Spec2Model ----
(***************************************************************************)
(* State-machine model of coefplot_py (src/coefplot_py/tools.py): the      *)
(* CoefPlot plotter, its plot() entry point, the single- and multi-group   *)
(* layout engines, the label formatter and the z-score routine, together   *)
(* with the part of matplotlib.pyplot's figure registry the code drives.   *)
(*                                                                         *)
(* Conventions.  Python None is the empty tuple and a present optional     *)
(* value v is <<v>>.  Text is a sequence of one-character strings.         *)
(* Coefficients, standard errors and caller-supplied bounds are integers   *)
(* in thousandths; z-scores are in millionths; computed interval bounds    *)
(* are IEEE-like values [k, v] with k in {"fin","inf","ninf","nan"} and v  *)
(* in units of 10^-9.  Confidence levels are in tenths of a percent        *)
(* (950 is 95, 999 is 99.9).                                               *)
(***************************************************************************)
EXTENDS Integers, Sequences, FiniteSets, TLC

\* ------------------------------------------------------------------ bounds

\* longest coefficient vector a call is given
MaxLen == 3

\* number of plot() calls in one behaviour
MaxCalls == 2

\* ----------------------------------------------------------- small helpers

None == <<>>

Some(v) == <<v>>

Min2(a, b) == IF a <= b THEN a ELSE b

Range(s) == {s[i] : i \in DOMAIN s}

\* ------------------------------------------------------------------- text

\* the characters the model uses, in code-point order
Alphabet == <<" ", "#", "$", "%", "&", "-", "0", "1", "2", "3", "4", "5",
              "6", "7", "8", "9", "C", "M", "V", "\\", "^", "_", "a", "b",
              "c", "e", "f", "i", "n", "o", "t", "{", "}", "~">>

Code(ch) == CHOOSE k \in DOMAIN Alphabet : Alphabet[k] = ch

\* Python's str < str: lexicographic by code point, a proper prefix first
RECURSIVE StrLess(_, _)
StrLess(a, b) ==
    IF b = <<>> THEN FALSE
    ELSE IF a = <<>> THEN TRUE
    ELSE IF Code(Head(a)) # Code(Head(b)) THEN Code(Head(a)) < Code(Head(b))
    ELSE StrLess(Tail(a), Tail(b))

\* str(k) for a non-negative integer k
RECURSIVE IntToStr(_)
IntToStr(k) ==
    LET digits == <<"0", "1", "2", "3", "4", "5", "6", "7", "8", "9">>
    IN  IF k < 10 THEN <<digits[k + 1]>>
        ELSE IntToStr(k \div 10) \o <<digits[(k % 10) + 1]>>

\* text.strip(): leading and trailing blanks removed
RECURSIVE LStrip(_)
LStrip(t) == IF t # <<>> /\ Head(t) = " " THEN LStrip(Tail(t)) ELSE t

RECURSIVE RStrip(_)
RStrip(t) ==
    IF t # <<>> /\ t[Len(t)] = " " THEN RStrip(SubSeq(t, 1, Len(t) - 1)) ELSE t

Strip(t) == RStrip(LStrip(t))

StartsWith(t, ch) == t # <<>> /\ t[1] = ch

EndsWith(t, ch) == t # <<>> /\ t[Len(t)] = ch

Contains(t, ch) == \E i \in DOMAIN t : t[i] = ch

\* text.split(sep): the pieces between the occurrences of sep
RECURSIVE SplitAcc(_, _, _)
SplitAcc(t, sep, cur) ==
    IF t = <<>> THEN <<cur>>
    ELSE IF Head(t) = sep THEN <<cur>> \o SplitAcc(Tail(t), sep, <<>>)
    ELSE SplitAcc(Tail(t), sep, Append(cur, Head(t)))

Split(t, sep) == SplitAcc(t, sep, <<>>)

\* text.replace(ch, rep) for a one-character ch
RECURSIVE Replace(_, _, _)
Replace(t, ch, rep) ==
    IF t = <<>> THEN <<>>
    ELSE (IF Head(t) = ch THEN rep ELSE <<Head(t)>>) \o Replace(Tail(t), ch, rep)

\* the characters _format_latex_label escapes, in the order it visits them
special_chars == <<"#", "$", "%", "&", "~", "^", "\\">>

\* a variant of EscapeFrom that takes a text holding a backslash as escaped
\* already and leaves it alone
RECURSIVE EscapeFromUnlessEscaped(_, _)
EscapeFromUnlessEscaped(t, k) ==
    IF k > Len(special_chars) \/ Contains(t, "\\") THEN t
    ELSE LET ch == special_chars[k]
         IN  IF Contains(t, ch) /\ ~StartsWith(t, "$")
             THEN EscapeFromUnlessEscaped(Replace(t, ch, <<"\\", ch>>), k + 1)
             ELSE EscapeFromUnlessEscaped(t, k + 1)

RECURSIVE EscapeFrom(_, _)
EscapeFrom(t, k) ==
    IF k > Len(special_chars) THEN t
    ELSE LET ch == special_chars[k]
         IN  IF Contains(t, ch) /\ ~StartsWith(t, "$")
             THEN EscapeFrom(Replace(t, ch, <<"\\", ch>>), k + 1)
             ELSE EscapeFrom(t, k + 1)

\* a variant of FormatLatexLabel that escapes whether or not the LaTeX probe
\* succeeded
FormatLatexLabelIgnoringProbe(latex, text) ==
    IF text = <<>> THEN <<>>
    ELSE IF StartsWith(Strip(text), "$") /\ EndsWith(Strip(text), "$") THEN text
    ELSE LET parts == Split(text, "_")
         IN  IF /\ Contains(text, "_")
                /\ ~StartsWith(text, "$")
                /\ Len(parts) = 2
             THEN <<"$">> \o parts[1] \o <<"_", "{">> \o parts[2] \o <<"}", "$">>
             ELSE EscapeFrom(text, 1)

\* CoefPlot._format_latex_label, latex being LATEX_AVAILABLE
FormatLatexLabel(latex, text) ==
    IF text = <<>> THEN <<>>
    ELSE IF ~latex THEN text
    ELSE IF StartsWith(Strip(text), "$") /\ EndsWith(Strip(text), "$") THEN text
    ELSE LET parts == Split(text, "_")
         IN  IF /\ \E ch \in {"_", "^", "{", "}", "\\"} : Contains(text, ch)
                /\ Contains(text, "_")
                /\ ~StartsWith(text, "$")
                /\ Len(parts) = 2
             THEN <<"$">> \o parts[1] \o <<"_", "{">> \o parts[2] \o <<"}", "$">>
             ELSE EscapeFrom(text, 1)

\* ---------------------------------------------------------------- numbers

Fin(v) == [k |-> "fin", v |-> v]

PosInf == [k |-> "inf", v |-> 0]

NegInf == [k |-> "ninf", v |-> 0]

NaN == [k |-> "nan", v |-> 0]

\* -x
FNeg(x) ==
    CASE x.k = "fin" -> Fin(0 - x.v)
      [] x.k = "inf" -> NegInf
      [] x.k = "ninf" -> PosInf
      [] OTHER -> NaN

\* x + y
FAdd(x, y) ==
    CASE x.k = "nan" \/ y.k = "nan" -> NaN
      [] x.k = "fin" /\ y.k = "fin" -> Fin(x.v + y.v)
      [] x.k = "fin" -> y
      [] y.k = "fin" -> x
      [] x.k = y.k -> x
      [] OTHER -> NaN

\* x - y
FSub(x, y) == FAdd(x, FNeg(y))

\* z * s for a z-score z (millionths) and a finite s (thousandths)
FScale(z, s) ==
    CASE z.k = "nan" -> NaN
      [] z.k = "fin" -> Fin(z.v * s)
      [] s = 0 -> NaN
      [] (z.k = "inf") = (s > 0) -> PosInf
      [] OTHER -> NegInf

\* a value given in thousandths, as a float
FromMilli(m) == Fin(m * 1000000)

\* round(x, 3) of a finite value, in thousandths
Round3(x) == (x.v + 500000) \div 1000000

\* scipy.stats.norm.ppf at the probabilities the modelled levels produce,
\* q given in units of 1/2000; values in millionths
PpfUpper == [q \in {1500, 1900, 1950, 1975, 1990, 1999} |->
                CASE q = 1500 -> 674490
                  [] q = 1900 -> 1644854
                  [] q = 1950 -> 1959964
                  [] q = 1975 -> 2241403
                  [] q = 1990 -> 2575829
                  [] OTHER -> 3290527]

NormPpf(q) ==
    CASE q < 0 \/ q > 2000 -> NaN
      [] q = 0 -> NegInf
      [] q = 2000 -> PosInf
      [] q = 1000 -> Fin(0)
      [] q > 1000 -> Fin(PpfUpper[q])
      [] OTHER -> Fin(0 - PpfUpper[2000 - q])

\* the fallback dictionary of _get_z_score
z_scores == [l \in {900, 950, 990, 999} |->
                CASE l = 900 -> 1645000
                  [] l = 950 -> 1960000
                  [] l = 990 -> 2576000
                  [] OTHER -> 3291000]

\* a variant of GetZScore that looks the level up in the table before it
\* tries scipy
GetZScoreTableFirst(scipy, level) ==
    IF level \in DOMAIN z_scores
    THEN [z |-> Fin(z_scores[level]), warned |-> FALSE]
    ELSE IF scipy
    THEN [z |-> NormPpf(1000 + level), warned |-> FALSE]
    ELSE [z |-> Fin(IF level >= 950 THEN 1960000 ELSE 1645000),
          warned |-> TRUE]

\* CoefPlot._get_z_score; scipy tells whether "from scipy import stats" works,
\* warned whether warnings.warn was called.  No path of it raises.
GetZScore(scipy, level) ==
    IF scipy
    THEN [z |-> NormPpf(1000 + level), warned |-> FALSE]
    ELSE IF level \in DOMAIN z_scores
    THEN [z |-> Fin(z_scores[level]), warned |-> FALSE]
    ELSE [z |-> Fin(IF level >= 950 THEN 1960000 ELSE 1645000),
          warned |-> TRUE]

\* numpy broadcasting of two 1-d shapes: the result length, or -1 when the
\* operands could not be broadcast together
BroadcastLen(n, m) ==
    IF n = m THEN n ELSE IF n = 1 THEN m ELSE IF m = 1 THEN n ELSE -1

\* element i of a 1-d array broadcast to a longer shape
BAt(a, i) == IF Len(a) = 1 THEN a[1] ELSE a[i]

\* a variant of MissingInput that insists on ses whatever bounds are given
MissingInputSesRequired(ses, ci_lower, ci_upper) == ses = None

\* plot(): the condition under which it raises
\* ValueError("Must provide either (ci_lower, ci_upper) or ses")
MissingInput(ses, ci_lower, ci_upper) ==
    (ci_lower = None \/ ci_upper = None) /\ ses = None

\* a variant of DerivedLower that forgets the z-score
DerivedLowerNoZ(z, coefs, ses, n) ==
    [i \in 1..n |-> FSub(FromMilli(BAt(coefs, i)),
                         FromMilli(BAt(ses, i)))]

\* plot(): ci_lower = coefs - z_score * np.asarray(ses), n the broadcast length
DerivedLower(z, coefs, ses, n) ==
    [i \in 1..n |-> FSub(FromMilli(BAt(coefs, i)), FScale(z, BAt(ses, i)))]

\* plot(): ci_upper = coefs + z_score * np.asarray(ses)
DerivedUpper(z, coefs, ses, n) ==
    [i \in 1..n |-> FAdd(FromMilli(BAt(coefs, i)), FScale(z, BAt(ses, i)))]

\* plot(), "Compute confidence intervals if not provided"; err is "" or the
\* exception raised, derived tells whether the bounds come from ses
ComputeIntervals(scipy, level, coefs, ses, ci_lower, ci_upper) ==
    IF MissingInput(ses, ci_lower, ci_upper)
    THEN [err |-> "MustProvide", lower |-> <<>>, upper |-> <<>>,
          derived |-> FALSE, warned |-> FALSE]
    ELSE IF ci_lower = None \/ ci_upper = None
    THEN LET zs == GetZScore(scipy, level)
             n  == BroadcastLen(Len(coefs), Len(ses[1]))
         IN  IF n < 0
             THEN [err |-> "BroadcastError", lower |-> <<>>, upper |-> <<>>,
                   derived |-> FALSE, warned |-> zs.warned]
             ELSE [err |-> "",
                   lower |-> DerivedLower(zs.z, coefs, ses[1], n),
                   upper |-> DerivedUpper(zs.z, coefs, ses[1], n),
                   derived |-> TRUE, warned |-> zs.warned]
    ELSE [err |-> "",
          lower |-> [i \in DOMAIN ci_lower[1] |-> FromMilli(ci_lower[1][i])],
          upper |-> [i \in DOMAIN ci_upper[1] |-> FromMilli(ci_upper[1][i])],
          derived |-> FALSE, warned |-> FALSE]

\* ----------------------------------------------------------------- styles

\* a colour (or marker) value: a caller's name, a row of the tab10 colormap
\* sampled at np.linspace(0, 1, n)[i], or Python None
Named(c) == [c |-> c, i |-> 0, n |-> 0]

Tab10(i, n) == [c |-> "tab10", i |-> i, n |-> n]

NoColor == [c |-> "<None>", i |-> 0, n |-> 0]

\* a style argument of plot(): omitted, one string, or a list of strings
StyleNone == [kind |-> "none", v |-> <<>>]

StyleStr(c) == [kind |-> "str", v |-> <<c>>]

StyleList(l) == [kind |-> "list", v |-> l]

\* a style value as the drawing loops see it: a sequence they index, or a
\* scalar they use as it is
AsSeq(l) == [isseq |-> TRUE, v |-> l]

AsScalar(x) == [isseq |-> FALSE, v |-> <<x>>]

\* a variant of Arange that counts positions from one
ArangeFromOne(n) == [i \in 1..n |-> i]

\* np.arange(n)
Arange(n) == [i \in 1..n |-> i - 1]

\* _plot_single, "Set up colors and markers": colors
SingleColors(colors, n) ==
    CASE colors.kind = "none" -> [i \in 1..n |-> Tab10(i - 1, n)]
      [] colors.kind = "str" -> [i \in 1..n |-> Named(colors.v[1])]
      [] OTHER -> [i \in DOMAIN colors.v |-> Named(colors.v[i])]

\* _plot_single, "Set up colors and markers": markers
SingleMarkers(markers, n) ==
    CASE markers.kind = "none" -> [i \in 1..n |-> "o"]
      [] markers.kind = "str" -> [i \in 1..n |-> markers.v[1]]
      [] OTHER -> markers.v

\* _plot_single: "if ci_colors is None: ci_colors = colors"
SingleCiColors(ci_colors, colors) ==
    CASE ci_colors.kind = "none" -> AsSeq(colors)
      [] ci_colors.kind = "str" -> AsScalar(Named(ci_colors.v[1]))
      [] OTHER -> AsSeq([i \in DOMAIN ci_colors.v |-> Named(ci_colors.v[i])])

\* _plot_multiple hands ci_colors to the panel as the caller gave it
MultiCiColors(ci_colors) ==
    CASE ci_colors.kind = "none" -> AsScalar(NoColor)
      [] ci_colors.kind = "str" -> AsScalar(Named(ci_colors.v[1]))
      [] OTHER -> AsSeq([i \in DOMAIN ci_colors.v |-> Named(ci_colors.v[i])])

\* ---------------------------------------------------------------- drawing

\* the interval loop of _plot_horizontal / _plot_vertical:
\* zip(y_pos, ci_lower, ci_upper) stops at the shortest, ci_colors[i] raises
\* IndexError past the end of a sequence; "area" is drawn as "line", any
\* style other than line, bar and area draws no interval
DrawIntervals(ci_style, y_pos, lower, upper, ci_colors) ==
    LET style == IF ci_style = "area" THEN "line" ELSE ci_style
        m     == Min2(Len(y_pos), Min2(Len(lower), Len(upper)))
        lim   == IF ci_colors.isseq THEN Min2(m, Len(ci_colors.v)) ELSE m
    IN  IF style \notin {"line", "bar"}
        THEN [glyphs |-> <<>>, err |-> ""]
        ELSE [glyphs |-> [i \in 1..lim |->
                            [rec |-> i - 1, pos |-> y_pos[i],
                             lo |-> lower[i], hi |-> upper[i],
                             color |-> IF ci_colors.isseq
                                       THEN ci_colors.v[i]
                                       ELSE ci_colors.v[1],
                             style |-> style]],
              err |-> IF lim < m THEN "IndexError" ELSE ""]

\* the marker loop: zip(y_pos, coefs, colors, markers) stops at the shortest
DrawMarkers(y_pos, coefs, colors, markers) ==
    LET k == Min2(Min2(Len(y_pos), Len(coefs)),
                  Min2(Len(colors), Len(markers)))
    IN  [i \in 1..k |->
            [rec |-> i - 1, pos |-> y_pos[i], val |-> coefs[i],
             color |-> colors[i], marker |-> markers[i]]]

\* an axes nothing has been drawn on
EmptyPanel ==
    [intervals |-> <<>>, markers |-> <<>>, zero |-> FALSE, grid |-> FALSE,
     inverts |-> 0, ticks |-> None, ticklabels |-> None, xlabel |-> None,
     ylabel |-> None, title |-> None, group |-> None]

\* _plot_horizontal (horizontal) and _plot_vertical on an empty axes; only
\* the horizontal one calls invert_yaxis
DrawPanel(horizontal, coefs, lower, upper, y_pos, colors, markers, ci_colors, ci_style, zero_line, grid) ==
    LET iv == DrawIntervals(ci_style, y_pos, lower, upper, ci_colors)
    IN  IF iv.err # ""
        THEN [panel |-> [EmptyPanel EXCEPT !.intervals = iv.glyphs],
              err |-> iv.err]
        ELSE [panel |-> [EmptyPanel EXCEPT
                            !.intervals = iv.glyphs,
                            !.markers = DrawMarkers(y_pos, coefs, colors,
                                                    markers),
                            !.zero = zero_line,
                            !.grid = grid,
                            !.inverts = IF horizontal THEN 1 ELSE 0],
              err |-> ""]

\* the default label of the value axis
CoefficientText == <<"C", "o", "e", "f", "f", "i", "c", "i", "e", "n", "t">>

\* "a if a else b" on text
OrElse(a, b) == IF a # <<>> THEN a ELSE b

\* the tick and axis-label calls that follow the panel drawing in
\* _plot_single and _plot_multiple; set_*ticklabels raises ValueError when
\* the number of labels differs from the number of ticks just set.
\* first is TRUE where the code sets the y label (always in _plot_single,
\* plot_idx == 0 in _plot_multiple)
LabelPanel(latex, horizontal, panel, y_pos, labels, xlabel, ylabel, first) ==
    IF Len(labels) # Len(y_pos)
    THEN [panel |-> [panel EXCEPT !.ticks = Some(y_pos)],
          err |-> "ValueError"]
    ELSE [panel |-> [panel EXCEPT
                        !.ticks = Some(y_pos),
                        !.ticklabels =
                            Some([i \in DOMAIN labels |->
                                    FormatLatexLabel(latex, labels[i])]),
                        !.xlabel =
                            Some(FormatLatexLabel(latex,
                                    IF horizontal
                                    THEN OrElse(xlabel, CoefficientText)
                                    ELSE xlabel)),
                        !.ylabel =
                            IF first
                            THEN Some(FormatLatexLabel(latex,
                                    IF horizontal
                                    THEN ylabel
                                    ELSE OrElse(ylabel, CoefficientText)))
                            ELSE panel.ylabel],
          err |-> ""]

\* ------------------------------------------------------------ the engines

\* what a layout engine leaves behind: the figure it created (its panels in
\* axes order), the exception that ended it ("" when it returned), whether
\* savefig wrote the file and whether plt.close() released the figure;
\* axidx is the panel self.ax was last bound to (0: never bound)
Outcome(panels, sharey, suptitle, axidx, err, c) ==
    LET failed == err # ""
        ioerr  == ~failed /\ c.savepath # None /\ ~c.io_ok
    IN  [canvas |-> Some([panels |-> panels, sharey |-> sharey,
                          suptitle |-> suptitle]),
         axidx  |-> axidx,
         err    |-> IF ioerr THEN "IOError" ELSE err,
         saved  |-> ~failed /\ c.savepath # None /\ c.io_ok,
         \* plt.show() under the Agg backend selected at import returns
         \* without releasing the figure; only plt.close() releases it
         closed |-> ~failed /\ ~ioerr /\ ~c.show]

\* the invert_yaxis() calls made on the first k panels
RECURSIVE Flips(_, _)
Flips(panels, k) ==
    IF k = 0 THEN 0 ELSE panels[k].inverts + Flips(panels, k - 1)

\* whether the y axis of panel k of a figure ends up inverted.
\* ax.invert_yaxis() reverses the axis it is called on; panels created with
\* sharey=True have one y axis between them, so each panel's call reverses
\* it for all of them
YInverted(canvas, k) ==
    LET flips == IF canvas.sharey
                 THEN Flips(canvas.panels, Len(canvas.panels))
                 ELSE canvas.panels[k].inverts
    IN  flips % 2 = 1

\* the axes the panels of a figure have in common: plt.subplots is given
\* sharey and never sharex, whatever the orientation
SharedAxes(canvas) == [x |-> FALSE, y |-> canvas.sharey]

\* CoefPlot._plot_single
PlotSingle(latex, horizontal, c, lower, upper, labels) ==
    LET n       == Len(c.coefs)
        colors  == SingleColors(c.colors, n)
        markers == SingleMarkers(c.markers, n)
        cic     == SingleCiColors(c.ci_colors, colors)
        y_pos   == Arange(n)
        d       == DrawPanel(horizontal, c.coefs, lower, upper, y_pos, colors,
                             markers, cic, c.ci_style, c.zero_line, c.grid)
        l       == LabelPanel(latex, horizontal, d.panel, y_pos, labels,
                              c.xlabel, c.ylabel, TRUE)
        titled  == [l.panel EXCEPT
                      !.title = Some(FormatLatexLabel(latex, c.title))]
    IN  IF d.err # "" THEN Outcome(<<d.panel>>, FALSE, None, 1, d.err, c)
        ELSE IF l.err # "" THEN Outcome(<<l.panel>>, FALSE, None, 1, l.err, c)
        ELSE Outcome(<<titled>>, FALSE, None, 1, "", c)

\* np.unique on a sequence of texts: its distinct values, sorted
SortedUnique(ls) ==
    LET S == Range(ls)
    IN  [k \in 1..Cardinality(S) |->
            CHOOSE g \in S : Cardinality({h \in S : StrLess(h, g)}) = k - 1]

\* the positions a boolean mask selects, ascending
RECURSIVE MaskIdx(_, _, _)
MaskIdx(ls, g, i) ==
    IF i > Len(ls) THEN <<>>
    ELSE (IF ls[i] = g THEN <<i>> ELSE <<>>) \o MaskIdx(ls, g, i + 1)

\* arr[mask] for the positions idx
Take(arr, idx) == [j \in DOMAIN idx |-> arr[idx[j]]]

\* one iteration of the "Plot each model" loop of _plot_multiple, for the
\* group unique_plots[k]; bound tells whether self.ax was bound to the panel
MultiPanel(latex, horizontal, c, lower, upper, labels, uniq, k) ==
    LET g      == uniq[k]
        P      == Len(c.plot_labels[1])
        idx    == MaskIdx(c.plot_labels[1], g, 1)
        m      == Len(idx)
        fits(a) == Len(a) = P
        y_pos  == Arange(m)
        colors == CASE c.colors.kind = "none" ->
                         [i \in 1..m |-> Tab10(i - 1, m)]
                    [] c.colors.kind = "str" ->
                         [i \in 1..m |-> Named(c.colors.v[1])]
                    [] OTHER ->
                         [j \in 1..m |-> Named(c.colors.v[idx[j]])]
        markers == CASE c.markers.kind = "none" -> [i \in 1..m |-> "o"]
                     [] c.markers.kind = "str" ->
                          [i \in 1..m |-> c.markers.v[1]]
                     [] OTHER -> Take(c.markers.v, idx)
        d      == DrawPanel(horizontal, Take(c.coefs, idx), Take(lower, idx),
                            Take(upper, idx), y_pos, colors, markers,
                            MultiCiColors(c.ci_colors), c.ci_style,
                            c.zero_line, c.grid)
        l      == LabelPanel(latex, horizontal, d.panel, y_pos,
                             Take(labels, idx), c.xlabel, c.ylabel, k = 1)
        plot_title == IF c.title = <<>> THEN g
                      ELSE c.title \o <<" ", "-", " ">> \o g
    IN  IF ~(fits(c.coefs) /\ fits(lower) /\ fits(upper) /\ fits(labels))
        THEN [panel |-> [EmptyPanel EXCEPT !.group = Some(g)],
              err |-> "IndexError", bound |-> FALSE]
        ELSE IF \/ c.colors.kind = "list" /\ ~fits(c.colors.v)
                \/ c.markers.kind = "list" /\ ~fits(c.markers.v)
        THEN [panel |-> [EmptyPanel EXCEPT !.group = Some(g)],
              err |-> "IndexError", bound |-> TRUE]
        ELSE IF d.err # ""
        THEN [panel |-> [d.panel EXCEPT !.group = Some(g)],
              err |-> d.err, bound |-> TRUE]
        ELSE IF l.err # ""
        THEN [panel |-> [l.panel EXCEPT !.group = Some(g)],
              err |-> l.err, bound |-> TRUE]
        ELSE [panel |-> [l.panel EXCEPT
                            !.group = Some(g),
                            !.title = Some(FormatLatexLabel(latex,
                                                            plot_title))],
              err |-> "", bound |-> TRUE]

\* the distinct values of a sequence in order of first appearance
RECURSIVE FirstSeen(_, _)
FirstSeen(ls, seen) ==
    IF ls = <<>> THEN <<>>
    ELSE IF Head(ls) \in seen THEN FirstSeen(Tail(ls), seen)
    ELSE <<Head(ls)>> \o FirstSeen(Tail(ls), seen \cup {Head(ls)})

\* a variant of PanelOrder that keeps the groups in input order
PanelOrderFirstSeen(plot_labels) == FirstSeen(plot_labels, {})

\* the order in which _plot_multiple lays the groups out
PanelOrder(plot_labels) == SortedUnique(plot_labels)

\* a variant of SupTitle that titles the figure whatever the panel count
SupTitleAnyCount(latex, title, n_plots) ==
    IF title # <<>> THEN Some(FormatLatexLabel(latex, title)) ELSE None

\* "if title and n_plots == 1: fig.suptitle(...)"
SupTitle(latex, title, n_plots) ==
    IF title # <<>> /\ n_plots = 1
    THEN Some(FormatLatexLabel(latex, title)) ELSE None

\* CoefPlot._plot_multiple
PlotMultiple(latex, horizontal, c, lower, upper, labels) ==
    LET uniq    == PanelOrder(c.plot_labels[1])
        n_plots == Len(uniq)
        r       == [k \in 1..n_plots |->
                      MultiPanel(latex, horizontal, c, lower, upper, labels,
                                 uniq, k)]
        bad     == {k \in 1..n_plots : r[k].err # ""}
        last    == IF bad = {} THEN n_plots
                   ELSE CHOOSE k \in bad : \A j \in bad : k <= j
        axidx   == IF last = 0 THEN 0
                   ELSE IF r[last].bound THEN last ELSE last - 1
        sup     == SupTitle(latex, c.title, n_plots)
    IN  IF bad # {}
        THEN Outcome([k \in 1..last |-> r[k].panel], n_plots > 1, None,
                     axidx, r[last].err, c)
        ELSE Outcome([k \in 1..n_plots |-> r[k].panel], n_plots > 1, sup,
                     axidx, "", c)

\* ------------------------------------------------------------------ state

VARIABLES
    env,        \* process-wide flags set at import: LATEX_AVAILABLE,
                \* STATA_AVAILABLE, and whether scipy can be imported
    plotter,    \* the CoefPlot object: its fields
    call,       \* the arguments of the last plot() call (None before one)
    res,        \* what the last plot() call did
    openFigs,   \* figures registered with pyplot and not closed
    files,      \* paths a figure has been saved to
    nfigs,      \* figures created so far; a new figure gets nfigs + 1
    fmt,        \* a direct _format_latex_label call: its argument and, once
                \* it has returned, its result
    adapter     \* the last coefplot_from_stata call: its arguments, what it
                \* read from the engine and how it ended; None when the last
                \* call entered elsewhere

vars == <<env, plotter, call, res, openFigs, files, nfigs, fmt, adapter>>

\* a variant of NewCoefPlot whose default figure size ignores the
\* orientation
NewCoefPlotOneSize(horizontal, ci_level, figsize, dpi) ==
    [horizontal |-> horizontal,
     ci_level   |-> ci_level,
     figsize    |-> IF figsize # None THEN figsize[1] ELSE <<8, 6>>,
     dpi        |-> dpi,
     fig        |-> None,
     ax         |-> None]

\* CoefPlot.__init__
NewCoefPlot(horizontal, ci_level, figsize, dpi) ==
    [horizontal |-> horizontal,
     ci_level   |-> ci_level,
     figsize    |-> IF figsize # None THEN figsize[1]
                    ELSE IF horizontal THEN <<8, 6>> ELSE <<6, 8>>,
     dpi        |-> dpi,
     fig        |-> None,
     ax         |-> None]

\* the defaults of __init__'s parameters
DefaultLevel == 950

DefaultDpi == 300

\* the result of a call before any call was made
NoResult ==
    [err |-> "", engine |-> "none", canvas |-> None, fig |-> 0,
     axidx |-> 0, saved |-> FALSE, closed |-> FALSE, warned |-> FALSE,
     derived |-> FALSE, labels |-> <<>>, level |-> 0, horizontal |-> TRUE]

\* a variant of SynthLabel that numbers the labels from zero
SynthLabelZeroBased(k) == CoefficientText \o <<" ">> \o IntToStr(k - 1)

\* f"Coefficient {k}"
SynthLabel(k) == CoefficientText \o <<" ">> \o IntToStr(k)

\* plot(), "Generate labels if not provided" and the 0-d case
PlotLabels(labels, n_coefs) ==
    CASE labels.kind = "none" -> [i \in 1..n_coefs |-> SynthLabel(i)]
      [] labels.kind = "scalar" -> <<labels.v[1]>>
      [] OTHER -> labels.v

\* which engine plot() hands the call to
UseMultiple(c) == c.plot_labels # None

\* CoefPlot.plot run on the plotter object p as one step: validation,
\* interval derivation, dispatch, drawing, saving, show/close.  kept tells
\* whether p is the plotter the caller keeps (its fig and ax stay visible)
\* or one that is dropped when the call returns
RunPlot(p, c, kept) ==
    /\ nfigs < MaxCalls
    /\ call' = Some(c)
    /\ env' = env
    /\ fmt' = fmt
    /\ \E labels \in {PlotLabels(c.labels, Len(c.coefs))},
          ci \in {ComputeIntervals(env.scipy, p.ci_level, c.coefs,
                                   c.ses, c.ci_lower, c.ci_upper)} :
          IF ci.err # ""
          THEN /\ res' = [NoResult EXCEPT !.err = ci.err,
                                          !.warned = ci.warned,
                                          !.labels = labels,
                                          !.level = p.ci_level,
                                          !.horizontal = p.horizontal]
               /\ plotter' = IF kept THEN p ELSE plotter
               /\ UNCHANGED <<openFigs, files, nfigs>>
          ELSE \E id \in {nfigs + 1},
                  out \in {IF UseMultiple(c)
                           THEN PlotMultiple(env.latex, p.horizontal, c,
                                             ci.lower, ci.upper, labels)
                           ELSE PlotSingle(env.latex, p.horizontal, c,
                                           ci.lower, ci.upper, labels)} :
                  /\ res' = [err |-> out.err,
                             engine |-> IF UseMultiple(c) THEN "multi"
                                        ELSE "single",
                             canvas |-> out.canvas, fig |-> id,
                             axidx |-> out.axidx, saved |-> out.saved,
                             closed |-> out.closed, warned |-> ci.warned,
                             derived |-> ci.derived, labels |-> labels,
                             level |-> p.ci_level,
                             horizontal |-> p.horizontal]
                  /\ plotter' = IF kept
                                THEN [p EXCEPT
                                        !.fig = Some(id),
                                        !.ax = IF out.axidx = 0 THEN @
                                               ELSE Some(<<id, out.axidx>>)]
                                ELSE plotter
                  /\ openFigs' = IF out.closed THEN openFigs
                                 ELSE openFigs \cup {id}
                  /\ files' = IF out.saved THEN files \cup {c.savepath[1]}
                              ELSE files
                  /\ nfigs' = id

\* plotter.plot(...) on the caller's plotter
Plot(c) == RunPlot(plotter, c, TRUE) /\ adapter' = None

\* the module-level coefplot_py: a fresh plotter, one plot() call on it
CoefplotPy(c, horizontal, ci_level) ==
    /\ RunPlot(NewCoefPlot(horizontal, ci_level, None, DefaultDpi), c, FALSE)
    /\ adapter' = None

\* a caller replaces the plotter by a freshly constructed one
Construct(horizontal, ci_level, figsize, dpi) ==
    /\ plotter' = NewCoefPlot(horizontal, ci_level, figsize, dpi)
    /\ UNCHANGED <<env, call, res, openFigs, files, nfigs, fmt, adapter>>

\* the default of __init__'s horizontal parameter
DefaultHorizontal == TRUE

\* the value of a keyword argument: the default d when it is omitted
Default(arg, d) == IF arg = None THEN d ELSE arg[1]

\* CoefPlot(**kw): every argument is given or left to its default
ConstructWith(kw) ==
    Construct(Default(kw.horizontal, DefaultHorizontal),
              Default(kw.ci_level, DefaultLevel),
              kw.figsize,
              Default(kw.dpi, DefaultDpi))

\* no _format_latex_label call is pending
NoFormat == [text |-> <<>>, out |-> None]

\* a direct call plotter._format_latex_label(fmt.text)
FormatLabelCall ==
    /\ fmt.out = None
    /\ fmt' = [fmt EXCEPT !.out = Some(FormatLatexLabel(env.latex, fmt.text))]
    /\ UNCHANGED <<env, plotter, call, res, openFigs, files, nfigs, adapter>>

\* plotter._format_latex_label called on the text its last call returned;
\* fmt.out holds the results of the successive calls
ReformatLabel ==
    /\ fmt.out # None
    /\ Len(fmt.out) = 1
    /\ fmt' = [fmt EXCEPT
                  !.out = Append(@, FormatLatexLabel(env.latex, fmt.out[1]))]
    /\ UNCHANGED <<env, plotter, call, res, openFigs, files, nfigs, adapter>>

\* ------------------------------------------------------- the Stata adapter

\* a in b, for texts
IsInfix(a, b) ==
    \E i \in 0..(Len(b) - Len(a)) : SubSeq(b, i + 1, i + Len(a)) = a

\* b.startswith(a), for texts
IsPrefix(a, b) == Len(a) <= Len(b) /\ SubSeq(b, 1, Len(a)) = a

\* np.sqrt of a diagonal entry of e(V); the entries the model uses are
\* squares
Sqrt(v) == CHOOSE r \in 0..v : r * r = v

\* a variant of StataMissing that never finds the engine missing
StataMissingNever(e) == FALSE

\* "if not STATA_AVAILABLE"
StataMissing(e) == ~e.stata

\* whether a coefficient name matches a pattern of the filter: the same
\* text, or, for a pattern with a dot, the text after its first dot occurs
\* in the name
Matches(name, pattern) ==
    \/ name = pattern
    \/ /\ Contains(pattern, ".")
       /\ LET base_var == Split(pattern, ".")[2]
          IN  \/ IsInfix(base_var, name)
              \/ IsPrefix(base_var \o <<":">>, name)

\* the mask coefplot_from_stata builds over the coefficient names
StataMask(names, coefs) ==
    [i \in DOMAIN names |->
        \E j \in DOMAIN coefs : Matches(names[i], coefs[j])]

\* "coefs is not None and len(coefs) > 0"
Filtering(coefs) == coefs # None /\ coefs[1] # <<>>

\* a variant of StataKept that applies the mask even when it selects nothing
StataKeptNoFallback(names, coefs) ==
    IF ~Filtering(coefs) THEN [i \in DOMAIN names |-> i]
    ELSE MaskIdx(StataMask(names, coefs[1]), TRUE, 1)

\* the positions of e(b) that coefplot_from_stata passes on: those the
\* mask selects, or all of them when there is no filter or the mask selects
\* none
StataKept(names, coefs) ==
    IF ~Filtering(coefs) THEN [i \in DOMAIN names |-> i]
    ELSE LET sel == MaskIdx(StataMask(names, coefs[1]), TRUE, 1)
         IN  IF Len(sel) > 0 THEN sel ELSE [i \in DOMAIN names |-> i]

\* a variant of SeValues that leaves the standard errors unfiltered
SeValuesUnfiltered(engine, coefs) ==
    [i \in DOMAIN engine.V |-> Sqrt(engine.V[i])]

\* "Compute standard errors": the roots of the diagonal of e(V), filtered
\* by the mask when the coefficients were
SeValues(engine, coefs) ==
    Take([i \in DOMAIN engine.V |-> Sqrt(engine.V[i])],
         StataKept(engine.names, coefs))

\* coefplot_from_stata as one step.  engine is what Stata holds: the column
\* names and values of e(b) and the diagonal of e(V); est_name is None, "."
\* or the name of a stored estimate, which is restored before reading
CoefplotFromStata(est_name, coefs, horizontal, ci_level, engine) ==
    IF StataMissing(env)
    THEN /\ adapter' = [est_name |-> est_name, coefs |-> coefs,
                        engine |-> engine, restored |-> FALSE,
                        read |-> FALSE, err |-> "ImportError"]
         /\ UNCHANGED <<env, plotter, call, res, openFigs, files, nfigs, fmt>>
    ELSE LET idx             == StataKept(engine.names, coefs)
             coef_values     == Take(engine.b, idx)
             coef_names_list == Take(engine.names, idx)
             se_values       == SeValues(engine, coefs)
             coef_names      == IF Len(coef_values) # Len(coef_names_list)
                                THEN [i \in 1..Len(coef_values) |->
                                        SynthLabel(i)]
                                ELSE coef_names_list
         IN  /\ RunPlot(NewCoefPlot(horizontal, ci_level, None, DefaultDpi),
                        [coefs |-> coef_values, ses |-> Some(se_values),
                         labels |-> [kind |-> "list", v |-> coef_names],
                         ci_lower |-> None, ci_upper |-> None,
                         groups |-> None, plot_labels |-> None,
                         title |-> <<>>, xlabel |-> <<>>, ylabel |-> <<>>,
                         colors |-> StyleNone, markers |-> StyleNone,
                         ci_colors |-> StyleNone, ci_style |-> "line",
                         zero_line |-> TRUE, grid |-> TRUE,
                         savepath |-> None, show |-> TRUE, io_ok |-> TRUE],
                        FALSE)
             /\ adapter' = [est_name |-> est_name, coefs |-> coefs,
                            engine |-> engine,
                            restored |-> est_name \notin {None, Some(<<".">>)},
                            read |-> TRUE, err |-> ""]

\* ----------------------------------------------------------------- inputs

BaseCoefs == <<500, -300, 800>>

BaseSes == <<100, 150, 120>>

BaseLabels == << <<"V", "1">>, <<"a", "_", "b">>, <<"a", "#", "b">> >>

BaseGroups == << <<"M", "2">>, <<"M", "1", "0">>, <<"M", "1">> >>

\* the n-long vector that walks cyclically through base from offset r
Cyc(base, r, n) == [i \in 1..n |-> base[((r + i - 1) % Len(base)) + 1]]

\* plot() called with coefs only and every other parameter at its default
BaseCall(coefs) ==
    [coefs |-> coefs, ses |-> None,
     labels |-> [kind |-> "none", v |-> <<>>],
     ci_lower |-> None, ci_upper |-> None, groups |-> None,
     plot_labels |-> None, title |-> <<>>, xlabel |-> <<>>, ylabel |-> <<>>,
     colors |-> StyleNone, markers |-> StyleNone, ci_colors |-> StyleNone,
     ci_style |-> "line", zero_line |-> TRUE, grid |-> TRUE,
     savepath |-> None, show |-> TRUE,
     \* whether the file system accepts the write savefig attempts
     io_ok |-> TRUE]

\* confidence levels, in tenths of a percent, inside and outside (0, 100)
Levels == {-1000, 0, 900, 950, 999, 1000, 1500}

CoefSeqs == {Cyc(BaseCoefs, 0, n) : n \in 0..MaxLen}

Shift(a, d) == [i \in DOMAIN a |-> a[i] + d]

Envs == [latex : BOOLEAN, scipy : BOOLEAN, stata : BOOLEAN]

\* the ses arguments a call is made with: none, or one of any length
SesArgs == {None} \cup {Some(Cyc(BaseSes, 0, m)) : m \in 1..MaxLen}

\* a call that gives the intervals through ses, through explicit bounds
\* (lo, hi tell which are given), or not at all
IntervalCall(coefs, ses, lo, hi) ==
    [BaseCall(coefs) EXCEPT
        !.ses = ses,
        !.ci_lower = IF lo THEN Some(Shift(coefs, -200)) ELSE None,
        !.ci_upper = IF hi THEN Some(Shift(coefs, 200)) ELSE None,
        !.show = FALSE]

InitIntervals ==
    /\ env \in {e \in Envs : e.latex /\ e.stata}
    /\ plotter = NewCoefPlot(TRUE, DefaultLevel, None, DefaultDpi)
    /\ call = None
    /\ res = NoResult
    /\ openFigs = {}
    /\ files = {}
    /\ nfigs = 0
    /\ fmt = NoFormat
    /\ adapter = None

\* the calls that vary how the intervals are given
IntervalCalls ==
    {IntervalCall(coefs, ses, lo, hi) :
        coefs \in CoefSeqs, ses \in SesArgs, lo \in BOOLEAN, hi \in BOOLEAN}

CoefplotPyIntervals ==
    \E c \in IntervalCalls, l \in Levels : CoefplotPy(c, TRUE, l)

NextIntervals == CoefplotPyIntervals

SpecIntervals == InitIntervals /\ [][NextIntervals]_vars

\* a sequence of n - 1 style values where n are needed (none for n = 0)
Short(base, n) == Cyc(base, 0, IF n = 0 THEN 0 ELSE n - 1)

BaseColors == <<"red", "blue", "green">>

BaseMarkers == <<"s", "^", "D">>

\* the ways a style argument can be given for n records
StyleKinds == {"none", "str", "list", "short"}

StyleArg(kind, base, n) ==
    CASE kind = "none" -> StyleNone
      [] kind = "str" -> StyleStr(base[1])
      [] kind = "list" -> StyleList(Cyc(base, 0, n))
      [] OTHER -> StyleList(Short(base, n))

\* the ways the labels argument can be given for n records
LabelKinds == {"none", "list", "scalar", "short"}

LabelArg(kind, n) ==
    CASE kind = "none" -> [kind |-> "none", v |-> <<>>]
      [] kind = "list" -> [kind |-> "list", v |-> Cyc(BaseLabels, 0, n)]
      [] kind = "scalar" -> [kind |-> "scalar", v |-> <<BaseLabels[1]>>]
      [] OTHER -> [kind |-> "list", v |-> Short(BaseLabels, n)]

\* a call with n records and their standard errors
SesCall(n) ==
    [BaseCall(Cyc(BaseCoefs, 0, n)) EXCEPT !.ses = Some(Cyc(BaseSes, 0, n))]

\* calls that vary the record count, the labels, the markers and the
\* interval style
LayoutCalls ==
    {[SesCall(n) EXCEPT
        !.labels = LabelArg(lk, n),
        !.markers = StyleArg(mk, BaseMarkers, n),
        !.ci_style = cs,
        !.show = FALSE] :
        n \in 0..MaxLen, lk \in LabelKinds, mk \in {"none", "short"},
        cs \in {"line", "bar"}}

InitLayout ==
    /\ env \in {e \in Envs : e.scipy /\ e.stata}
    /\ plotter = NewCoefPlot(TRUE, DefaultLevel, None, DefaultDpi)
    /\ call = None
    /\ res = NoResult
    /\ openFigs = {}
    /\ files = {}
    /\ nfigs = 0
    /\ fmt = NoFormat
    /\ adapter = None

CoefplotPyLayout ==
    \E c \in LayoutCalls, h \in BOOLEAN : CoefplotPy(c, h, DefaultLevel)

NextLayout == CoefplotPyLayout

SpecLayout == InitLayout /\ [][NextLayout]_vars

\* a call that partitions n records into the groups pl names
GroupCall(n, pl) ==
    [SesCall(n) EXCEPT
        !.labels = LabelArg("list", n),
        !.plot_labels = Some(pl),
        !.show = FALSE]

\* the calls that partition up to MaxLen records in every possible way
GroupCalls ==
    UNION {{GroupCall(n, pl) : pl \in [1..n -> Range(BaseGroups)]} :
           n \in 0..MaxLen}

CoefplotPyGroups ==
    \E c \in GroupCalls, h \in BOOLEAN : CoefplotPy(c, h, DefaultLevel)

NextGroups == CoefplotPyGroups

SpecGroups == InitLayout /\ [][NextGroups]_vars

\* a call handed to the multi-group engine when multi, the records
\* alternating between two groups
Engine(c, multi) ==
    IF multi
    THEN [c EXCEPT !.plot_labels =
                      Some(Cyc(SubSeq(BaseGroups, 1, 2), 0, Len(c.coefs)))]
    ELSE c

\* the path the figure is saved to
OutPath == <<"o", "u", "t">>

\* calls that give each style argument as nothing, a full list or a list
\* one short of the records, to either engine, saving or not
StyleVariedCalls ==
    {Engine([SesCall(n) EXCEPT
                !.colors = StyleArg(ck, BaseColors, n),
                !.markers = StyleArg(mk, BaseMarkers, n),
                !.ci_colors = StyleArg(ik, BaseColors, n),
                !.savepath = sp,
                !.show = FALSE], multi) :
        n \in {MaxLen}, ck \in StyleKinds \ {"str"},
        mk \in StyleKinds \ {"str"}, ik \in StyleKinds \ {"str"},
        sp \in {None, Some(OutPath)}, multi \in BOOLEAN}

\* calls that fail for another reason: no ses and no bounds, labels one
\* short of the records, ses of another length, or a path savefig cannot
\* write to
OtherFailingCalls ==
    {Engine([SesCall(n) EXCEPT
                !.ses = IF why = "noses" THEN None
                        ELSE IF why = "seslen"
                        THEN Some(Cyc(BaseSes, 0, n + 1))
                        ELSE @,
                !.labels = IF why = "labels" THEN LabelArg("short", n) ELSE @,
                !.io_ok = why # "io",
                !.savepath = Some(OutPath),
                !.show = FALSE], multi) :
        n \in (MaxLen - 1)..MaxLen,
        why \in {"noses", "seslen", "labels", "io"}, multi \in BOOLEAN}

StyleCalls == StyleVariedCalls \cup OtherFailingCalls

CoefplotPyStyles ==
    \E c \in StyleCalls, h \in BOOLEAN : CoefplotPy(c, h, DefaultLevel)

NextStyles == CoefplotPyStyles

SpecStyles == InitLayout /\ [][NextStyles]_vars

\* calls that vary what happens to the figure: shown or closed, saved or
\* not, the write failing or not, either engine, drawing failing or not
LifeCalls ==
    {Engine([SesCall(n) EXCEPT
                !.ci_colors = StyleArg(ik, BaseColors, n),
                !.savepath = sp,
                !.io_ok = io,
                !.show = sh], multi) :
        n \in (MaxLen - 1)..MaxLen, ik \in {"none", "short"},
        sp \in {None, Some(OutPath)}, io \in BOOLEAN, sh \in BOOLEAN,
        multi \in BOOLEAN}

\* the figure sizes a caller constructs the plotter with
Figsizes == {None, Some(<<10, 4>>)}

Init ==
    /\ env \in {e \in Envs : e.scipy /\ e.stata /\ e.latex}
    /\ \E h \in BOOLEAN, fs \in Figsizes :
          plotter = NewCoefPlot(h, DefaultLevel, fs, DefaultDpi)
    /\ call = None
    /\ res = NoResult
    /\ openFigs = {}
    /\ files = {}
    /\ nfigs = 0
    /\ fmt = NoFormat
    /\ adapter = None

ConstructAny ==
    \E h \in BOOLEAN, fs \in Figsizes :
        Construct(h, DefaultLevel, fs, DefaultDpi)

PlotAny == \E c \in LifeCalls : Plot(c)

Next == ConstructAny \/ PlotAny

Spec == Init /\ [][Next]_vars

\* the interval styles a caller asks for: the two the code draws, the one
\* it names as not implemented, and one it does not know
CiStyles == {"line", "bar", "area", "errorbar"}

\* a call with n records in the interval style cs, with or without the
\* groups argument (gr, a group for each record), plot_labels (multi), and
\* the zero line and grid (deco)
RenderCall(n, cs, gr, multi, deco) ==
    Engine([SesCall(n) EXCEPT
               !.ci_style = cs,
               !.groups = IF gr /\ n > 0
                          THEN Some(Cyc(SubSeq(BaseGroups, 1, 2), 0, n))
                          ELSE None,
               !.zero_line = deco,
               !.grid = deco,
               !.show = FALSE], multi)

RenderCalls ==
    {RenderCall(n, cs, gr, multi, deco) :
        n \in 0..MaxLen, cs \in CiStyles, gr \in BOOLEAN, multi \in BOOLEAN,
        deco \in BOOLEAN}

CoefplotPyRender ==
    \E c \in RenderCalls, h \in BOOLEAN : CoefplotPy(c, h, DefaultLevel)

NextRender == CoefplotPyRender

SpecRender == InitLayout /\ [][NextRender]_vars

\* the coefficient names of an estimate: a plain regressor, a level of a
\* factor variable and the constant
BaseNames == <<<<"x">>, <<"r", ":", "P">>, <<"c">>>>

\* what Stata holds after an estimation with n coefficients
Engine_b(n) ==
    [names |-> Cyc(BaseNames, 0, n), b |-> Cyc(BaseCoefs, 0, n),
     V |-> [i \in 1..n |-> Cyc(BaseSes, 0, n)[i] * Cyc(BaseSes, 0, n)[i]]]

\* patterns a caller filters with: a name, a factor-variable pattern that
\* matches, a name and a factor-variable pattern that match nothing
Patterns == {<<"x">>, <<"1", ".", "r">>, <<"z">>, <<"2", ".", "q">>}

\* the coefs argument: absent, empty, one pattern, or two patterns of which
\* both, the second only or neither matches
Filters ==
    {None, Some(<<>>)} \cup {Some(<<p>>) : p \in Patterns}
        \cup {Some(<<<<"x">>, <<"1", ".", "r">>>>),
              Some(<<<<"z">>, <<"x">>>>),
              Some(<<<<"z">>, <<"2", ".", "q">>>>)}

\* the est_name argument
EstNames == {None, Some(<<".">>), Some(<<"m", "1">>)}

InitStata ==
    /\ env \in {e \in Envs : e.scipy /\ e.latex}
    /\ plotter = NewCoefPlot(TRUE, DefaultLevel, None, DefaultDpi)
    /\ call = None
    /\ res = NoResult
    /\ openFigs = {}
    /\ files = {}
    /\ nfigs = 0
    /\ fmt = NoFormat
    /\ adapter = None

\* the estimates Stata may hold
Engines == {Engine_b(n) : n \in 1..MaxLen}

CoefplotFromStataAny ==
    \E est \in EstNames, f \in Filters, h \in BOOLEAN, e \in Engines :
        CoefplotFromStata(est, f, h, DefaultLevel, e)

\* calls of the primary entry point, with and without standard errors
PrimaryCalls ==
    {[SesCall(n) EXCEPT !.ses = IF ses THEN @ ELSE None, !.show = FALSE] :
        n \in 0..MaxLen, ses \in BOOLEAN}

CoefplotPyStata ==
    \E c \in PrimaryCalls, h \in BOOLEAN : CoefplotPy(c, h, DefaultLevel)

NextStata == CoefplotFromStataAny \/ CoefplotPyStata

SpecStata == InitStata /\ [][NextStata]_vars

\* the keyword arguments a caller constructs the plotter with, each given
\* or omitted
CtorArgs ==
    [horizontal : {None, Some(TRUE), Some(FALSE)},
     ci_level : {None, Some(900)},
     figsize : Figsizes,
     dpi : {None, Some(72)}]

\* a plot() call on the caller's plotter: n records, with or without
\* standard errors, for either engine
ObjectCall(n, ses, multi) ==
    Engine([SesCall(n) EXCEPT
               !.ses = IF ses THEN @ ELSE None,
               !.show = FALSE], multi)

ConstructObject == \E kw \in CtorArgs : ConstructWith(kw)

ObjectCalls ==
    {ObjectCall(n, ses, multi) :
        n \in {0, 1, MaxLen}, ses \in BOOLEAN, multi \in BOOLEAN}

PlotObject == \E c \in ObjectCalls : Plot(c)

NextObject == ConstructObject \/ PlotObject

SpecObject == InitStata /\ [][NextObject]_vars

\* the characters label texts are made of
LabelChars == {"a", " ", "_", "#", "$", "^", "\\", "{"}

\* every text of at most MaxLen of these characters
LabelTexts == UNION {[1..n -> LabelChars] : n \in 0..MaxLen}

InitLabels ==
    /\ env \in {e \in Envs : e.scipy /\ e.stata}
    /\ plotter = NewCoefPlot(TRUE, DefaultLevel, None, DefaultDpi)
    /\ call = None
    /\ res = NoResult
    /\ openFigs = {}
    /\ files = {}
    /\ nfigs = 0
    /\ fmt \in {[text |-> t, out |-> None] : t \in LabelTexts}
    /\ adapter = None

NextLabels == FormatLabelCall

SpecLabels == InitLabels /\ [][NextLabels]_vars

\* the titles a caller gives: none, a plain one and one with an underscore
Titles == {<<>>, <<"T">>, <<"a", "_", "b">>}

\* calls that partition up to MaxLen records between two groups in every
\* possible way, with and without a title
TitleCalls ==
    UNION {{[GroupCall(n, pl) EXCEPT !.title = t] :
               pl \in [1..n -> {BaseGroups[1], BaseGroups[3]}],
               t \in Titles} :
           n \in 0..MaxLen}

CoefplotPyTitles ==
    \E c \in TitleCalls, h \in BOOLEAN : CoefplotPy(c, h, DefaultLevel)

NextTitles == CoefplotPyTitles

SpecTitles == InitLayout /\ [][NextTitles]_vars

\* confidence levels in and out of the fallback table of _get_z_score
ZLevels == Levels \cup {500, 975, 990}

\* calls that derive the intervals of 0..MaxLen records from ses
LevelCalls == {[SesCall(n) EXCEPT !.show = FALSE] : n \in 0..MaxLen}

CoefplotPyLevels ==
    \E c \in LevelCalls, l \in ZLevels : CoefplotPy(c, TRUE, l)

NextLevels == CoefplotPyLevels

SpecLevels == InitIntervals /\ [][NextLevels]_vars

\* patterns with more than one dot and with nothing after the dot, beside
\* those of Patterns
DottedPatterns ==
    Patterns \cup {<<"1", ".", "r", ".", "q">>, <<"1", ".">>}

\* filters of one pattern
DottedFilters == {Some(<<p>>) : p \in DottedPatterns}

CoefplotFromStataDotted ==
    \E est \in EstNames, f \in DottedFilters, h \in BOOLEAN, e \in Engines :
        CoefplotFromStata(est, f, h, DefaultLevel, e)

NextFilter == CoefplotFromStataDotted

SpecFilter == InitStata /\ [][NextFilter]_vars

NextRelabel == FormatLabelCall \/ ReformatLabel

SpecRelabel == InitLabels /\ [][NextRelabel]_vars

\* ------------------------------------------------- claims on the intervals

\* what the last call was given
Args == call[1]

\* the panels of the figure the last call created
Panels == res.canvas[1].panels

\* the last call returned normally from a layout engine
Completed == call # None /\ res.err = "" /\ res.canvas # None

\* C1: plot() (and coefplot_py through it) raises "Must provide either
\* (ci_lower, ci_upper) or ses" exactly when ses is not supplied and
\* ci_lower and ci_upper are not both supplied, and for no other combination
C1_MustProvideExactly ==
    call # None =>
        ((res.err = "MustProvide") <=>
            (/\ Args.ses = None
             /\ ~(Args.ci_lower # None /\ Args.ci_upper # None)))

\* the error is raised with one bound supplied, and is not raised with both
C1_Witness ==
    /\ call # None
    /\ Args.ses = None
    /\ Args.ci_lower # None
    /\ Args.ci_upper = None
    /\ Args.coefs # <<>>
    /\ res.err = "MustProvide"

\* the z-score the last call worked with
CallZ == GetZScore(env.scipy, res.level).z

\* C2: when the intervals are derived from ses, the interval drawn for record
\* i runs from coefs[i] - z*ses[i] to coefs[i] + z*ses[i], z being the
\* z-score of the plotter's ci_level: it is symmetric about coefs[i], a
\* single bound the caller supplied is not used, one interval is drawn per
\* record when ses is as long as coefs, and coefs = [0.5, -0.3, 0.8],
\* ses = [0.1, 0.15, 0.12] at level 95 give [0.304, -0.594, 0.565] and
\* [0.696, -0.006, 1.035] to three decimals
C2_DerivedBounds ==
    (Completed /\ res.engine = "single" /\ Args.ses # None
       /\ (Args.ci_lower = None \/ Args.ci_upper = None)) =>
        LET iv  == Panels[1].intervals
            ses == Args.ses[1]
        IN  /\ res.derived
            /\ Len(ses) = Len(Args.coefs) => Len(iv) = Len(Args.coefs)
            /\ \A j \in DOMAIN iv :
                 LET i == iv[j].rec + 1
                 IN  (i \in DOMAIN ses /\ i \in DOMAIN Args.coefs
                        /\ CallZ.k = "fin") =>
                        /\ iv[j].lo =
                             Fin(Args.coefs[i] * 1000000 - CallZ.v * ses[i])
                        /\ iv[j].hi =
                             Fin(Args.coefs[i] * 1000000 + CallZ.v * ses[i])
                        /\ iv[j].lo.v + iv[j].hi.v
                             = 2 * Args.coefs[i] * 1000000
            /\ (Args.coefs = <<500, -300, 800>> /\ ses = <<100, 150, 120>>
                  /\ res.level = 950) =>
                  /\ [j \in 1..3 |-> Round3(iv[j].lo)] = <<304, -594, 565>>
                  /\ [j \in 1..3 |-> Round3(iv[j].hi)] = <<696, -6, 1035>>

\* the example of the claim is drawn, the caller's own lower bound set aside
C2_Witness ==
    /\ Completed
    /\ res.derived
    /\ Args.coefs = <<500, -300, 800>>
    /\ Args.ses = Some(<<100, 150, 120>>)
    /\ Args.ci_lower # None
    /\ res.level = 950
    /\ Len(Panels[1].intervals) = 3
    /\ Round3(Panels[1].intervals[2].lo) = -594

\* C10: a confidence level <= 0 or >= 100 is rejected: no call that derives
\* its intervals from ses at such a level returns normally having drawn them
C10_OutOfDomainLevelRejected ==
    ~(/\ Completed
      /\ res.derived
      /\ (res.level <= 0 \/ res.level >= 1000)
      /\ Panels[1].intervals # <<>>)

\* ---------------------------------------------------- claims on the layout

\* the text "Coefficient k" for a one-digit k, written out
CoefficientNo(k) ==
    <<"C", "o", "e", "f", "f", "i", "c", "i", "e", "n", "t", " ",
      <<"0", "1", "2", "3", "4", "5", "6", "7", "8", "9">>[k + 1]>>

\* C3: when labels are omitted the N coefficients are labelled exactly
\* "Coefficient 1" .. "Coefficient N" in input order, on the ticks too; when
\* labels are supplied they are kept as given, never replaced by these
C3_DefaultLabels ==
    call # None =>
        LET N == Len(Args.coefs)
        IN  /\ Args.labels.kind = "none" =>
                /\ res.labels = [i \in 1..N |-> CoefficientNo(i)]
                /\ (Completed /\ res.engine = "single") =>
                      Panels[1].ticklabels =
                          Some([i \in 1..N |-> CoefficientNo(i)])
            /\ Args.labels.kind = "list" => res.labels = Args.labels.v
            /\ Args.labels.kind = "scalar" => res.labels = Args.labels.v

\* three unlabelled coefficients are drawn with the three default labels
C3_Witness ==
    /\ Completed
    /\ Args.labels.kind = "none"
    /\ Len(Args.coefs) = 3
    /\ Panels[1].ticklabels # None
    /\ Panels[1].ticklabels[1][3] = CoefficientNo(3)

\* no style sequence of the last call is shorter than its record count
StylesCover ==
    \A st \in {Args.colors, Args.markers, Args.ci_colors} :
        st.kind = "list" => Len(st.v) >= Len(Args.coefs)

\* C4: a completed single-group render of N >= 1 coefficients with N labels,
\* in either orientation, sets exactly the N ticks 0..N-1, the tick at
\* position i carrying the formatted label of record i; every marker and
\* interval drawn for record i sits at position i with that record's values,
\* one of each per record when the style sequences cover the records; the
\* categorical axis is inverted in horizontal orientation only
C4_TicksAndPositions ==
    (Completed /\ res.engine = "single" /\ Len(Args.coefs) >= 1
       /\ Len(res.labels) = Len(Args.coefs)) =>
        LET N  == Len(Args.coefs)
            pn == Panels[1]
        IN  /\ pn.ticks = Some([i \in 1..N |-> i - 1])
            /\ pn.ticklabels # None
            /\ Len(pn.ticklabels[1]) = N
            /\ \A i \in 1..N :
                 pn.ticklabels[1][i] = FormatLatexLabel(env.latex, res.labels[i])
            /\ \A j \in DOMAIN pn.markers :
                 /\ pn.markers[j].rec = j - 1
                 /\ pn.markers[j].pos = pn.markers[j].rec
                 /\ pn.markers[j].val = Args.coefs[j]
            /\ \A j \in DOMAIN pn.intervals :
                 /\ pn.intervals[j].rec = j - 1
                 /\ pn.intervals[j].pos = pn.intervals[j].rec
            /\ StylesCover =>
                 /\ Len(pn.markers) = N
                 /\ Args.ci_style \in {"line", "bar"} => Len(pn.intervals) = N
            /\ pn.inverts = (IF res.horizontal THEN 1 ELSE 0)

\* three labelled records drawn vertically with math rendering: three ticks,
\* the second carrying the subscript form of "a_b"
C4_Witness ==
    /\ Completed
    /\ res.engine = "single"
    /\ ~res.horizontal
    /\ env.latex
    /\ Len(Args.coefs) = 3
    /\ Args.labels.kind = "list"
    /\ Panels[1].ticks = Some(<<0, 1, 2>>)
    /\ Panels[1].ticklabels[1][2] = <<"$", "a", "_", "{", "b", "}", "$">>
    /\ Len(Panels[1].markers) = 3
    /\ Panels[1].markers[3].pos = 2

\* ---------------------------------------------------- claims on the groups

\* the place of a group name of BaseGroups in lexicographic order
LexRank(g) ==
    CASE g = <<"M", "1">> -> 1
      [] g = <<"M", "1", "0">> -> 2
      [] g = <<"M", "2">> -> 3

\* the j-th input position (from 1) whose group label is g
NthOf(g, j) ==
    LET S == {i \in DOMAIN Args.plot_labels[1] : Args.plot_labels[1][i] = g}
    IN  CHOOSE i \in S : Cardinality({h \in S : h < i}) = j - 1

\* the number of records whose group label is g
CountOf(g) ==
    Cardinality({i \in DOMAIN Args.plot_labels[1] :
                    Args.plot_labels[1][i] = g})

\* C5: a completed multi-group render has exactly one panel per distinct
\* group label, the panels ordered left to right by lexicographically sorted
\* label (not by first appearance), and each panel holds exactly the records
\* carrying its label, in input order
C5_PanelsSortedByGroup ==
    (Completed /\ res.engine = "multi") =>
        LET pl == Args.plot_labels[1]
        IN  /\ Len(Panels) = Cardinality(Range(pl))
            /\ \A g \in Range(pl) : \E k \in DOMAIN Panels :
                  Panels[k].group = Some(g)
            /\ \A k, l \in DOMAIN Panels :
                  k < l => LexRank(Panels[k].group[1])
                             < LexRank(Panels[l].group[1])
            /\ \A k \in DOMAIN Panels :
                  LET g  == Panels[k].group[1]
                      pn == Panels[k]
                  IN  /\ Len(pn.markers) = CountOf(g)
                      /\ Len(pn.intervals) = CountOf(g)
                      /\ pn.ticklabels # None
                      /\ Len(pn.ticklabels[1]) = CountOf(g)
                      /\ \A j \in 1..CountOf(g) :
                           /\ pn.markers[j].val = Args.coefs[NthOf(g, j)]
                           /\ pn.markers[j].pos = j - 1
                           /\ pn.intervals[j].lo.v + pn.intervals[j].hi.v
                                = 2 * 1000000 * Args.coefs[NthOf(g, j)]
                           /\ pn.ticklabels[1][j] =
                                FormatLatexLabel(env.latex,
                                                 Args.labels.v[NthOf(g, j)])

\* records given as M2, M1, M2 come out as the panel M1 with the second
\* record followed by the panel M2 with the first and third
C5_Witness ==
    /\ Completed
    /\ res.engine = "multi"
    /\ Args.plot_labels = Some(<< <<"M", "2">>, <<"M", "1">>, <<"M", "2">> >>)
    /\ Len(Panels) = 2
    /\ Panels[1].group = Some(<<"M", "1">>)
    /\ Len(Panels[1].markers) = 1
    /\ Panels[1].markers[1].val = Args.coefs[2]
    /\ Len(Panels[2].markers) = 2
    /\ Panels[2].markers[2].val = Args.coefs[3]

\* ------------------------------------- claims on the errors and the figure

\* some style argument of the last call is a sequence shorter than the
\* number of coefficients
ShortStyleGiven ==
    \E st \in {Args.colors, Args.markers, Args.ci_colors} :
        st.kind = "list" /\ Len(st.v) < Len(Args.coefs)

\* C6: whenever colors, markers or ci_colors is supplied as a sequence
\* shorter than the number of coefficients the render call fails with an
\* error; it never completes having drawn fewer markers or intervals than
\* records
C6_ShortStyleFails ==
    (call # None /\ ShortStyleGiven
       /\ ~MissingInput(Args.ses, Args.ci_lower, Args.ci_upper)) =>
        res.err # ""

\* C7: if an error occurs after the figure has been created (while drawing,
\* labelling the ticks or saving), the figure is closed before the error
\* reaches the caller
C7_FigureClosedOnError ==
    (call # None /\ res.err # "" /\ res.canvas # None) =>
        res.fig \notin openFigs

\* the errors that report the shape of the input
ShapeErrors == {"MustProvide", "BroadcastError", "IndexError", "ValueError"}

\* C8: whenever a render call fails with an input-shape error (no intervals
\* and no ses, or a style or label sequence whose length disagrees with the
\* record count) the error is raised before a figure is created and before
\* anything is drawn, and no file is written to savepath
C8_ShapeErrorBeforeCanvas ==
    (call # None /\ res.err \in ShapeErrors) =>
        /\ res.canvas = None
        /\ ~res.saved
        /\ files = {}

\* C9: after a render call that returns normally, whatever show, savepath
\* and engine, the figure the call created is no longer open
C9_NoFigureOutlivesCall ==
    Completed => res.fig \notin openFigs

\* ------------------------------------------- claims on style and dispatch

\* what the last call would have drawn had it asked for ci_style "line"
LineTwin ==
    LET c  == [Args EXCEPT !.ci_style = "line"]
        ci == ComputeIntervals(env.scipy, res.level, c.coefs, c.ses,
                               c.ci_lower, c.ci_upper)
    IN  IF UseMultiple(c)
        THEN PlotMultiple(env.latex, res.horizontal, c, ci.lower, ci.upper,
                          res.labels)
        ELSE PlotSingle(env.latex, res.horizontal, c, ci.lower, ci.upper,
                        res.labels)

\* C11: for every ci_style other than "line" and "bar" (not only "area")
\* rendering does not error and emits exactly the interval glyphs, markers,
\* zero line, grid and axis inversion of the same call with ci_style "line"
C11_OtherStylesDrawAsLine ==
    (/\ call # None
     /\ Args.ci_style \notin {"line", "bar"}
     /\ ~MissingInput(Args.ses, Args.ci_lower, Args.ci_upper)) =>
        /\ res.err = ""
        /\ res.canvas = LineTwin.canvas

\* C15: in horizontal orientation, after a render completes, the categorical
\* axis of every panel is inverted so that the panel's first record is
\* topmost, in single-group rendering and in multi-group rendering with any
\* number of panels sharing their y axis
C15_FirstRecordTopmost ==
    (Completed /\ res.horizontal) =>
        \A k \in DOMAIN Panels : YInverted(res.canvas[1], k)

\* C16: the render call uses the multi-group engine exactly when the caller
\* supplies the groups argument, and the single-group engine otherwise
C16_GroupsSelectEngine ==
    (call # None /\ res.engine # "none") =>
        ((res.engine = "multi") <=> (Args.groups # None))

\* ------------------------------------------------- claims on the labels

\* a direct format call has returned with LaTeX available
Formatted == fmt.out # None /\ env.latex

\* the characters the specification calls special
SpecialChars == {"#", "$", "%", "&", "~", "^", "\\"}

CountCh(t, ch) == Cardinality({i \in DOMAIN t : t[i] = ch})

\* $base_{suffix}$ for a text base_suffix with a single underscore
SubscriptForm(t) ==
    LET k == CHOOSE i \in DOMAIN t : t[i] = "_"
    IN  <<"$">> \o SubSeq(t, 1, k - 1) \o <<"_", "{">>
            \o SubSeq(t, k + 1, Len(t)) \o <<"}", "$">>

\* the format call returned the subscript form of its argument
Subscripted ==
    /\ CountCh(fmt.text, "_") = 1
    /\ fmt.out[1] = SubscriptForm(fmt.text)

\* C12: with math rendering available, format_label rewrites its input to
\* the subscript form $base_{suffix}$ exactly when the input contains
\* exactly one underscore and no other special character; one underscore
\* plus another special character, or two or more underscores, is not
\* subscripted
C12_SubscriptExactlyOneUnderscore ==
    Formatted =>
        (Subscripted <=>
            (/\ CountCh(fmt.text, "_") = 1
             /\ \A i \in DOMAIN fmt.text : fmt.text[i] \notin SpecialChars))

\* every special character of t preceded by one backslash, the rest as is
RECURSIVE EscapeEach(_)
EscapeEach(t) ==
    IF t = <<>> THEN <<>>
    ELSE (IF Head(t) \in SpecialChars THEN <<"\\", Head(t)>> ELSE <<Head(t)>>)
            \o EscapeEach(Tail(t))

\* t starts and ends with the math delimiter
MathDelimited(t) == t # <<>> /\ t[1] = "$" /\ t[Len(t)] = "$"

\* C13: with math rendering available, for every input that is not
\* math-delimited, does not start with '$' and is not subscripted,
\* format_label returns the input with each of # $ % & ~ ^ \ preceded by
\* exactly one added backslash and every other character unchanged
C13_EscapedOnce ==
    (/\ Formatted
     /\ ~MathDelimited(Strip(fmt.text))
     /\ ~StartsWith(fmt.text, "$")
     /\ ~Subscripted) =>
        fmt.out[1] = EscapeEach(fmt.text)

\* C14: format_label returns its input unchanged when the input is empty,
\* when math rendering is unavailable, and when the input starts and ends
\* with the math delimiter '$', whatever else it contains
C14_IdentityCases ==
    fmt.out # None =>
        /\ fmt.text = <<>> => fmt.out[1] = <<>>
        /\ ~env.latex => fmt.out[1] = fmt.text
        /\ MathDelimited(fmt.text) => fmt.out[1] = fmt.text

\* a math-delimited text holding an underscore came back unchanged with
\* math rendering available
C14_Witness ==
    /\ Formatted
    /\ fmt.text = <<"$", "_", "$">>
    /\ fmt.out[1] = fmt.text

\* ------------------------------------------------ claims on the adapter

\* the last call entered through coefplot_from_stata and reached the engine
AdapterRan == adapter # None /\ adapter.err = ""

\* the positions of the engine's names that match a pattern of the filter
Matched ==
    {i \in DOMAIN adapter.engine.names :
        \E j \in DOMAIN adapter.coefs[1] :
            Matches(adapter.engine.names[i], adapter.coefs[1][j])}

\* the positions the filter is to select
Selected ==
    IF adapter.coefs = None \/ adapter.coefs[1] = <<>> \/ Matched = {}
    THEN DOMAIN adapter.engine.names
    ELSE Matched

\* the elements of a at the positions keep, in their order in a
SubAt(a, keep) ==
    [k \in 1..Cardinality(keep) |->
        a[CHOOSE i \in keep : Cardinality({j \in keep : j < i}) = k - 1]]

\* C17: when the adapter's name filter matches no coefficient name the
\* filter is ignored and the complete set of coefficients, standard errors
\* and names is passed on to the primary entry point; a filter of None or
\* an empty list likewise selects the full set, and a filter with at least
\* one match selects only the matching names
C17_FilterSelection ==
    AdapterRan =>
        /\ Args.coefs = SubAt(adapter.engine.b, Selected)
        /\ Args.labels = [kind |-> "list",
                          v |-> SubAt(adapter.engine.names, Selected)]
        /\ Args.ses # None
        /\ Len(Args.ses[1]) = Cardinality(Selected)
        /\ \A k \in DOMAIN Args.ses[1] :
              Args.ses[1][k] * Args.ses[1][k]
                  = SubAt(adapter.engine.V, Selected)[k]

\* a filter of two patterns that match nothing was ignored: both
\* coefficients of the estimate were passed on
C17_Witness ==
    /\ AdapterRan
    /\ adapter.coefs = Some(<<<<"z">>, <<"2", ".", "q">>>>)
    /\ Len(adapter.engine.names) = 2
    /\ Args.coefs = adapter.engine.b
    /\ Len(Args.coefs) = 2
    /\ res.err = ""

\* C18: with the estimation engine absent, every coefplot_from_stata call
\* fails with an error before it reads engine data or creates a figure,
\* while plot() and coefplot_py still validate and draw as they do with the
\* engine present
C18_AdapterNeedsEngine ==
    [][/\ (adapter' # None /\ adapter' # adapter /\ ~env.stata) =>
            /\ adapter'.err = "ImportError"
            /\ ~adapter'.read
            /\ ~adapter'.restored
            /\ UNCHANGED <<plotter, call, res, openFigs, files, nfigs>>
       /\ (adapter' = None /\ call' # None) =>
            /\ res'.err =
                  (IF call'[1].ses = None THEN "MustProvide" ELSE "")
            /\ res'.err = "" =>
                  /\ res'.canvas # None
                  /\ Len(res'.canvas[1].panels) = 1
                  /\ Len(res'.canvas[1].panels[1].markers)
                        = Len(call'[1].coefs)
                  /\ Len(res'.canvas[1].panels[1].intervals)
                        = Len(call'[1].coefs)]_vars

\* with the engine absent the adapter has failed after a plot() call that
\* drew its figure
C18_Witness ==
    /\ ~env.stata
    /\ adapter # None
    /\ adapter.err = "ImportError"
    /\ call # None
    /\ Args.coefs # <<>>
    /\ res.err = ""
    /\ nfigs = 1

\* ------------------------------------------- claims on the plotter object

\* C19: a newly constructed CoefPlot has fig and ax unset, horizontal=True,
\* ci_level=95 and dpi=300 by default; its figsize is the caller's when one
\* is given, otherwise (8, 6) for horizontal and (6, 8) for vertical
\* orientation; constructing it creates no figure
C19_ConstructorDefaults ==
    [][\A kw \in CtorArgs :
          ConstructWith(kw) =>
              /\ plotter'.fig = None
              /\ plotter'.ax = None
              /\ plotter'.horizontal =
                    (IF kw.horizontal = None THEN TRUE ELSE kw.horizontal[1])
              /\ plotter'.ci_level =
                    (IF kw.ci_level = None THEN 950 ELSE kw.ci_level[1])
              /\ plotter'.dpi = (IF kw.dpi = None THEN 300 ELSE kw.dpi[1])
              /\ plotter'.figsize =
                    (IF kw.figsize # None THEN kw.figsize[1]
                     ELSE IF plotter'.horizontal THEN <<8, 6>>
                     ELSE <<6, 8>>)
              /\ nfigs' = nfigs
              /\ openFigs' = openFigs]_vars

\* a vertical plotter constructed after a plot() call, with the default
\* figure size, level and dpi and no figure of its own
C19_Witness ==
    /\ nfigs > 0
    /\ ~plotter.horizontal
    /\ plotter.figsize = <<6, 8>>
    /\ plotter.ci_level = 950
    /\ plotter.dpi = 300
    /\ plotter.fig = None
    /\ plotter.ax = None

\* C20: after any plot() call that returns normally the plotter's fig and
\* ax are both set and refer to the figure and an axis created by that
\* call; after a plot() call that fails validation they keep the values
\* they had before the call
C20_FigAndAxTrackLastCall ==
    [][/\ (nfigs' = nfigs + 1 /\ res'.err = "") =>
            /\ plotter'.fig = Some(nfigs')
            /\ plotter'.ax # None
            /\ plotter'.ax[1][1] = nfigs'
       /\ (res'.err = "MustProvide" /\ <<call', res'>> # <<call, res>>) =>
            /\ plotter'.fig = plotter.fig
            /\ plotter'.ax = plotter.ax]_vars

\* ------------------------------------------- claims on the multi-group row

\* the label panel k carries on its value axis: the x axis in horizontal
\* orientation, the y axis in vertical orientation
ValueLabel(k) ==
    IF res.horizontal THEN Panels[k].xlabel ELSE Panels[k].ylabel

\* C21: in a completed multi-group render the value-axis label is set on
\* the first panel and on no other panel, in both orientations
C21_ValueLabelFirstPanelOnly ==
    (Completed /\ res.engine = "multi") =>
        \A k \in DOMAIN Panels : (ValueLabel(k) # None) <=> (k = 1)

\* C22: when more than one group is rendered the panels share the value
\* axis (x in horizontal, y in vertical orientation) and do not share the
\* categorical axis, in both orientations
C22_PanelsShareValueAxis ==
    (Completed /\ res.engine = "multi" /\ Len(Panels) > 1) =>
        LET shared == SharedAxes(res.canvas[1])
        IN  /\ IF res.horizontal THEN shared.x ELSE shared.y
            /\ ~(IF res.horizontal THEN shared.y ELSE shared.x)

\* a style argument of the last call is a sequence with one value a record
PerRecord(style) == style.kind = "list" /\ Len(style.v) = Len(Args.coefs)

\* C23: in a completed multi-group render every per-record style given as a
\* sequence is sliced by the group's membership mask: each record of each
\* panel is drawn with the color, the marker and the interval color at the
\* record's own index in the caller's sequences
C23_StylesSlicedByMask ==
    (Completed /\ res.engine = "multi") =>
        \A k \in DOMAIN Panels :
            LET g  == Panels[k].group[1]
                pn == Panels[k]
            IN  \A j \in 1..CountOf(g) :
                    LET r == NthOf(g, j)
                    IN  /\ PerRecord(Args.colors) =>
                              pn.markers[j].color = Named(Args.colors.v[r])
                        /\ PerRecord(Args.markers) =>
                              pn.markers[j].marker = Args.markers.v[r]
                        /\ PerRecord(Args.ci_colors) =>
                              pn.intervals[j].color
                                  = Named(Args.ci_colors.v[r])

\* the title text the claim gives panel k: "{title} - {group}", or the
\* group name when the call has no title
TitleText(k) ==
    IF Args.title = <<>> THEN Panels[k].group[1]
    ELSE Args.title \o <<" ", "-", " ">> \o Panels[k].group[1]

\* the figure title is set exactly when the call names one distinct group
\* and has a title
FigureTitleRule ==
    (res.canvas[1].suptitle # None)
        <=> (Cardinality(Range(Args.plot_labels[1])) = 1
             /\ Args.title # <<>>)

\* C24 as stated: each panel's title is the text "{title} - {group}" (the
\* group name without a title) and the figure title is set if and only if
\* there is one distinct group and a title
C24_TitlesLiteral ==
    (Completed /\ res.engine = "multi") =>
        /\ \A k \in DOMAIN Panels : Panels[k].title = Some(TitleText(k))
        /\ FigureTitleRule

\* C24: each panel's title is format_label applied to "{title} - {group}"
\* (to the group name without a title), and the figure title, format_label
\* of the title, is set if and only if there is one distinct group and a
\* title
C24_TitlesFormatted ==
    (Completed /\ res.engine = "multi") =>
        /\ \A k \in DOMAIN Panels :
              Panels[k].title
                  = Some(FormatLatexLabel(env.latex, TitleText(k)))
        /\ FigureTitleRule
        /\ res.canvas[1].suptitle # None =>
              res.canvas[1].suptitle
                  = Some(FormatLatexLabel(env.latex, Args.title))

\* with math rendering available, two groups under the title a_b: the
\* second panel is titled with the subscript form of "a_b - M2" and the
\* figure has no title of its own
C24_Witness ==
    /\ Completed
    /\ res.engine = "multi"
    /\ env.latex
    /\ Args.title = <<"a", "_", "b">>
    /\ Len(Panels) = 2
    /\ Panels[2].group = Some(<<"M", "2">>)
    /\ Panels[2].title = Some(<<"$", "a", "_", "{", "b", " ", "-", " ",
                                "M", "2", "}", "$">>)
    /\ res.canvas[1].suptitle = None

\* ---------------------------------------------- claims on the half width

\* the half widths the claim lists for the levels 90, 95, 99 and 99.9
ListedZ ==
    [l \in {900, 950, 990, 999} |->
        CASE l = 900 -> 1645000
          [] l = 950 -> 1960000
          [] l = 990 -> 2576000
          [] OTHER -> 3291000]

\* every interval of the single panel is coefs[i] -+ z * ses[i]
DrawnWithZ(z) ==
    /\ Len(Panels[1].intervals) = Len(Args.coefs)
    /\ \A i \in DOMAIN Panels[1].intervals :
          /\ Panels[1].intervals[i].lo
                = Fin(Args.coefs[i] * 1000000 - z * Args.ses[1][i])
          /\ Panels[1].intervals[i].hi
                = Fin(Args.coefs[i] * 1000000 + z * Args.ses[1][i])

AfterDot(pattern) ==
    LET d == CHOOSE i \in DOMAIN pattern :
                 pattern[i] = "." /\ \A j \in 1..(i - 1) : pattern[j] # "."
    IN  SubSeq(pattern, d + 1, Len(pattern))

\* the rule of the claim: the name equals the pattern, or the pattern has a
\* dot and the text after it occurs in the name, as a substring or as a
\* prefix followed by ':'
RuleSelects(name, pattern) ==
    \/ name = pattern
    \/ /\ Contains(pattern, ".")
       /\ \/ IsInfix(AfterDot(pattern), name)
          \/ IsPrefix(AfterDot(pattern) \o <<":">>, name)

\* the positions of the engine's names the rule selects for the filter
RuleSelected ==
    {i \in DOMAIN adapter.engine.names :
        \E j \in DOMAIN adapter.coefs[1] :
            RuleSelects(adapter.engine.names[i], adapter.coefs[1][j])}

\* C26: the adapter's filter selects a coefficient name if and only if the
\* name equals some pattern, or some pattern contains a dot and the text
\* after the dot occurs in the name as a substring or as a prefix followed
\* by ':'; the names passed on are those the rule selects (all of them when
\* it selects none)
C26_FilterRule ==
    (AdapterRan /\ Filtering(adapter.coefs)) =>
        Args.labels.v =
            SubAt(adapter.engine.names,
                  IF RuleSelected = {} THEN DOMAIN adapter.engine.names
                  ELSE RuleSelected)

\* ------------------------------------------ claims on formatting twice

\* format_label was applied to a text and then to its own result, math
\* rendering being available
Reformatted == Formatted /\ Len(fmt.out) = 2

\* the text holds one of the characters format_label escapes
HasSpecial(t) == \E i \in DOMAIN t : t[i] \in SpecialChars

\* C27 as stated: every input that does not start with '$', is not
\* subscripted and holds one of # $ % & ~ ^ \ comes out of a second
\* application different from the first; a subscripted output comes out of
\* the second application unchanged
C27_TwiceDiffersLiteral ==
    Reformatted =>
        /\ (/\ ~StartsWith(fmt.text, "$")
            /\ ~Subscripted
            /\ HasSpecial(fmt.text)) => fmt.out[2] # fmt.out[1]
        /\ Subscripted => fmt.out[2] = fmt.out[1]

\* C27: every input that is not math-delimited once stripped of blanks,
\* does not start with '$', is not subscripted and holds one of
\* # $ % & ~ ^ \ comes out of a second application different from the
\* first, with more backslashes; a subscripted output comes out of the
\* second application unchanged
C27_TwiceDiffers ==
    Reformatted =>
        /\ (/\ ~MathDelimited(Strip(fmt.text))
            /\ ~StartsWith(fmt.text, "$")
            /\ ~Subscripted
            /\ HasSpecial(fmt.text)) =>
              /\ fmt.out[2] # fmt.out[1]
              /\ CountCh(fmt.out[2], "\\") > CountCh(fmt.out[1], "\\")
        /\ Subscripted => fmt.out[2] = fmt.out[1]

\* the text a#: the first application gave a\\#, the second escaped the
\* two backslashes and the # again
C27_Witness ==
    /\ Reformatted
    /\ fmt.text = <<"a", "#">>
    /\ fmt.out[1] = <<"a", "\\", "\\", "#">>
    /\ fmt.out[2] = <<"a", "\\", "\\", "\\", "\\", "\\", "\\", "#">>

\* --------------------------------------- claims on the interval colours

\* C28: when ci_colors is omitted every interval is drawn in the color of
\* the marker of its own record, in single-group and in multi-group
\* rendering alike, whether colors is omitted, one color or one per record
C28_IntervalTakesMarkerColor ==
    (Completed /\ Args.ci_colors.kind = "none") =>
        \A k \in DOMAIN Panels :
            \A i \in DOMAIN Panels[k].intervals :
                \A j \in DOMAIN Panels[k].markers :
                    Panels[k].markers[j].rec = Panels[k].intervals[i].rec =>
                        Panels[k].intervals[i].color
                            = Panels[k].markers[j].color

\* ------------------------------------- claims on the adapter's alignment

\* the strictly increasing maps from the positions passed on into the
\* positions of the engine's coefficients
Embeddings(n, m) ==
    {f \in [1..n -> 1..m] : \A k \in 1..(n - 1) : f[k] < f[k + 1]}

\* C29: whatever the filter (absent, matching or matching nothing), the
\* values, standard errors and names the adapter hands to the primary entry
\* point are equally long, keep the engine's order and stay aligned:
\* position k of each refers to one and the same engine coefficient, the
\* standard error being the square root of its covariance-diagonal entry
C29_AdapterKeepsAlignment ==
    AdapterRan =>
        /\ Args.ses # None
        /\ Args.labels.kind = "list"
        /\ Len(Args.ses[1]) = Len(Args.coefs)
        /\ Len(Args.labels.v) = Len(Args.coefs)
        /\ \E f \in Embeddings(Len(Args.coefs), Len(adapter.engine.b)) :
              \A k \in DOMAIN Args.coefs :
                  /\ Args.coefs[k] = adapter.engine.b[f[k]]
                  /\ Args.labels.v[k] = adapter.engine.names[f[k]]
                  /\ Args.ses[1][k] >= 0
                  /\ Args.ses[1][k] * Args.ses[1][k]
                        = adapter.engine.V[f[k]]

\* the filter 1.r kept the second of three coefficients: its value, its
\* name and the root 0.15 of its variance 0.0225
C29_Witness ==
    /\ AdapterRan
    /\ adapter.coefs = Some(<<<<"1", ".", "r">>>>)
    /\ Len(adapter.engine.b) = 3
    /\ Args.coefs = <<-300>>
    /\ Args.labels.v = <<<<"r", ":", "P">>>>
    /\ Args.ses = Some(<<150>>)

====
